---- MODULE Spec2Model ----
(***************************************************************************)
(* A model of fzf-wrapped: the Fzf session (src/src/fzf.rs), the helper    *)
(* run_with_output (src/src/lib.rs) and the fzf subprocess it drives.      *)
(*                                                                         *)
(* Text is modelled as it is stored: a Rust String is a sequence of        *)
(* Unicode code points, a pipe carries a sequence of bytes (0..255).       *)
(* Command-line tokens are TLA+ strings.                                   *)
(***************************************************************************)
EXTENDS Integers, Sequences, FiniteSets, TLC

\* Most API calls made on one session in a behaviour.
MaxCalls == 4

---------------------------------------------------------------------------
(* Text: char::is_whitespace, str::trim, UTF-8 encoding and lossy decoding *)

\* U+FFFD REPLACEMENT CHARACTER, what from_utf8_lossy puts for invalid bytes.
REPLACEMENT == 65533

\* '\n', the line terminator add_item pushes.
NEWLINE == 10

\* char::is_whitespace: the code points with the White_Space property.
IsWhitespace(c) ==
    \/ c \in 9..13
    \/ c \in {32, 133, 160, 5760, 8232, 8233, 8239, 8287, 12288}
    \/ c \in 8192..8202

RECURSIVE TrimStart(_)
\* str::trim_start: drops the leading whitespace.
TrimStart(s) ==
    IF s = <<>> THEN <<>>
    ELSE IF IsWhitespace(Head(s)) THEN TrimStart(Tail(s)) ELSE s

RECURSIVE TrimEnd(_)
\* str::trim_end: drops the trailing whitespace.
TrimEnd(s) ==
    IF s = <<>> THEN <<>>
    ELSE IF IsWhitespace(s[Len(s)]) THEN TrimEnd(SubSeq(s, 1, Len(s) - 1)) ELSE s

\* A trim that forgets the leading side.
TrimOnlyEnd(s) == TrimEnd(s)

\* str::trim: drops leading and trailing whitespace, keeps the interior.
Trim(s) == TrimEnd(TrimStart(s))

\* The UTF-8 encoding of one code point (String::as_bytes stores this).
EncodeChar(c) ==
    IF c < 128 THEN <<c>>
    ELSE IF c < 2048 THEN <<192 + (c \div 64), 128 + (c % 64)>>
    ELSE IF c < 65536 THEN
        <<224 + (c \div 4096), 128 + ((c \div 64) % 64), 128 + (c % 64)>>
    ELSE <<240 + (c \div 262144), 128 + ((c \div 4096) % 64),
           128 + ((c \div 64) % 64), 128 + (c % 64)>>

RECURSIVE AsBytes(_)
\* String::as_bytes: the UTF-8 bytes of a string.
AsBytes(s) ==
    IF s = <<>> THEN <<>> ELSE EncodeChar(Head(s)) \o AsBytes(Tail(s))

\* A continuation byte 10xxxxxx.
IsCont(b) == b \in 128..191

\* The bytes allowed second after lead byte b1 in well-formed UTF-8.
SecondRange(b1) ==
    IF b1 = 224 THEN 160..191
    ELSE IF b1 = 237 THEN 128..159
    ELSE IF b1 = 240 THEN 144..191
    ELSE IF b1 = 244 THEN 128..143
    ELSE 128..191

\* s without its first n elements.
Drop(s, n) == SubSeq(s, n + 1, Len(s))

RECURSIVE FromUtf8Lossy(_)
\* String::from_utf8_lossy: decodes the well-formed sequences and puts one
\* U+FFFD for every maximal ill-formed run of bytes; it never fails.
FromUtf8Lossy(b) ==
    IF b = <<>> THEN <<>>
    ELSE LET b1 == b[1]
             n  == Len(b)
         IN
         IF b1 < 128 THEN <<b1>> \o FromUtf8Lossy(Drop(b, 1))
         ELSE IF b1 \in 194..223 THEN
             IF n >= 2 /\ IsCont(b[2])
             THEN <<(b1 - 192) * 64 + (b[2] - 128)>> \o FromUtf8Lossy(Drop(b, 2))
             ELSE <<REPLACEMENT>> \o FromUtf8Lossy(Drop(b, 1))
         ELSE IF b1 \in 224..239 THEN
             IF n >= 2 /\ b[2] \in SecondRange(b1)
             THEN IF n >= 3 /\ IsCont(b[3])
                  THEN <<(b1 - 224) * 4096 + (b[2] - 128) * 64 + (b[3] - 128)>>
                       \o FromUtf8Lossy(Drop(b, 3))
                  ELSE <<REPLACEMENT>> \o FromUtf8Lossy(Drop(b, 2))
             ELSE <<REPLACEMENT>> \o FromUtf8Lossy(Drop(b, 1))
         ELSE IF b1 \in 240..244 THEN
             IF n >= 2 /\ b[2] \in SecondRange(b1)
             THEN IF n >= 3 /\ IsCont(b[3])
                  THEN IF n >= 4 /\ IsCont(b[4])
                       THEN <<(b1 - 240) * 262144 + (b[2] - 128) * 4096
                              + (b[3] - 128) * 64 + (b[4] - 128)>>
                            \o FromUtf8Lossy(Drop(b, 4))
                       ELSE <<REPLACEMENT>> \o FromUtf8Lossy(Drop(b, 3))
                  ELSE <<REPLACEMENT>> \o FromUtf8Lossy(Drop(b, 2))
             ELSE <<REPLACEMENT>> \o FromUtf8Lossy(Drop(b, 1))
         ELSE <<REPLACEMENT>> \o FromUtf8Lossy(Drop(b, 1))

---------------------------------------------------------------------------
(* Configuration: the option enums and the argument list                   *)

\* Scheme::to_string.
SchemeToString(v) ==
    CASE v = "Default" -> "default"
      [] v = "Path"    -> "path"
      [] v = "History" -> "history"

\* Color::to_string with every value spelled by its name.
ColorToStringSpelled(v) ==
    CASE v = "Dark"    -> "dark"
      [] v = "Light"   -> "light"
      [] v = "Sixteen" -> "sixteen"
      [] v = "Bw"      -> "bw"

\* Color::to_string.
ColorToString(v) ==
    CASE v = "Dark"    -> "dark"
      [] v = "Light"   -> "light"
      [] v = "Sixteen" -> "16"
      [] v = "Bw"      -> "bw"

\* Layout::to_string.
LayoutToString(v) ==
    CASE v = "Default"     -> "default"
      [] v = "Reverse"     -> "reverse"
      [] v = "ReverseList" -> "reverse-list"

\* Border::to_string.
BorderToString(v) ==
    CASE v = "None"       -> "none"
      [] v = "Rounded"    -> "rounded"
      [] v = "Sharp"      -> "sharp"
      [] v = "Horizontal" -> "horizontal"
      [] v = "Vertical"   -> "vertical"
      [] v = "Top"        -> "top"
      [] v = "Bottom"     -> "bottom"
      [] v = "Left"       -> "left"
      [] v = "Right"      -> "right"

\* The code points of a token, as the String the Rust literal makes.
Chars(s) ==
    CASE s = "default" -> <<100, 101, 102, 97, 117, 108, 116>>
      [] s = "path" -> <<112, 97, 116, 104>>
      [] s = "history" -> <<104, 105, 115, 116, 111, 114, 121>>
      [] s = "dark" -> <<100, 97, 114, 107>>
      [] s = "light" -> <<108, 105, 103, 104, 116>>
      [] s = "16" -> <<49, 54>>
      [] s = "sixteen" -> <<115, 105, 120, 116, 101, 101, 110>>
      [] s = "bw" -> <<98, 119>>
      [] s = "reverse" -> <<114, 101, 118, 101, 114, 115, 101>>
      [] s = "reverse-list" -> <<114, 101, 118, 101, 114, 115, 101, 45, 108, 105, 115, 116>>
      [] s = "none" -> <<110, 111, 110, 101>>
      [] s = "rounded" -> <<114, 111, 117, 110, 100, 101, 100>>
      [] s = "sharp" -> <<115, 104, 97, 114, 112>>
      [] s = "horizontal" -> <<104, 111, 114, 105, 122, 111, 110, 116, 97, 108>>
      [] s = "vertical" -> <<118, 101, 114, 116, 105, 99, 97, 108>>
      [] s = "top" -> <<116, 111, 112>>
      [] s = "bottom" -> <<98, 111, 116, 116, 111, 109>>
      [] s = "left" -> <<108, 101, 102, 116>>
      [] s = "right" -> <<114, 105, 103, 104, 116>>

\* LOWERCASE_TABLE of core::unicode, which char::to_lowercase searches for
\* a code point outside ASCII, in runs: from the first to the second code
\* point, every one (step 1) or every other one (step 2) has its lowercase
\* at the distance given last.
LOWERCASE_TABLE ==
    <<
    <<192, 214, 1, 32>>, <<216, 222, 1, 32>>, <<256, 302, 2, 1>>,
    <<306, 310, 2, 1>>, <<313, 327, 2, 1>>, <<330, 374, 2, 1>>,
    <<376, 376, 1, -121>>, <<377, 381, 2, 1>>, <<385, 385, 1, 210>>,
    <<386, 388, 2, 1>>, <<390, 390, 1, 206>>, <<391, 391, 1, 1>>,
    <<393, 394, 1, 205>>, <<395, 395, 1, 1>>, <<398, 398, 1, 79>>,
    <<399, 399, 1, 202>>, <<400, 400, 1, 203>>, <<401, 401, 1, 1>>,
    <<403, 403, 1, 205>>, <<404, 404, 1, 207>>, <<406, 406, 1, 211>>,
    <<407, 407, 1, 209>>, <<408, 408, 1, 1>>, <<412, 412, 1, 211>>,
    <<413, 413, 1, 213>>, <<415, 415, 1, 214>>, <<416, 420, 2, 1>>,
    <<422, 422, 1, 218>>, <<423, 423, 1, 1>>, <<425, 425, 1, 218>>,
    <<428, 428, 1, 1>>, <<430, 430, 1, 218>>, <<431, 431, 1, 1>>,
    <<433, 434, 1, 217>>, <<435, 437, 2, 1>>, <<439, 439, 1, 219>>,
    <<440, 440, 1, 1>>, <<444, 444, 1, 1>>, <<452, 452, 1, 2>>,
    <<453, 453, 1, 1>>, <<455, 455, 1, 2>>, <<456, 456, 1, 1>>,
    <<458, 458, 1, 2>>, <<459, 475, 2, 1>>, <<478, 494, 2, 1>>,
    <<497, 497, 1, 2>>, <<498, 500, 2, 1>>, <<502, 502, 1, -97>>,
    <<503, 503, 1, -56>>, <<504, 542, 2, 1>>, <<544, 544, 1, -130>>,
    <<546, 562, 2, 1>>, <<570, 570, 1, 10795>>, <<571, 571, 1, 1>>,
    <<573, 573, 1, -163>>, <<574, 574, 1, 10792>>, <<577, 577, 1, 1>>,
    <<579, 579, 1, -195>>, <<580, 580, 1, 69>>, <<581, 581, 1, 71>>,
    <<582, 590, 2, 1>>, <<880, 882, 2, 1>>, <<886, 886, 1, 1>>,
    <<895, 895, 1, 116>>, <<902, 902, 1, 38>>, <<904, 906, 1, 37>>,
    <<908, 908, 1, 64>>, <<910, 911, 1, 63>>, <<913, 929, 1, 32>>,
    <<931, 939, 1, 32>>, <<975, 975, 1, 8>>, <<984, 1006, 2, 1>>,
    <<1012, 1012, 1, -60>>, <<1015, 1015, 1, 1>>, <<1017, 1017, 1, -7>>,
    <<1018, 1018, 1, 1>>, <<1021, 1023, 1, -130>>, <<1024, 1039, 1, 80>>,
    <<1040, 1071, 1, 32>>, <<1120, 1152, 2, 1>>, <<1162, 1214, 2, 1>>,
    <<1216, 1216, 1, 15>>, <<1217, 1229, 2, 1>>, <<1232, 1326, 2, 1>>,
    <<1329, 1366, 1, 48>>, <<4256, 4293, 1, 7264>>, <<4295, 4295, 1, 7264>>,
    <<4301, 4301, 1, 7264>>, <<5024, 5103, 1, 38864>>, <<5104, 5109, 1, 8>>,
    <<7305, 7305, 1, 1>>, <<7312, 7354, 1, -3008>>,
    <<7357, 7359, 1, -3008>>, <<7680, 7828, 2, 1>>,
    <<7838, 7838, 1, -7615>>, <<7840, 7934, 2, 1>>, <<7944, 7951, 1, -8>>,
    <<7960, 7965, 1, -8>>, <<7976, 7983, 1, -8>>, <<7992, 7999, 1, -8>>,
    <<8008, 8013, 1, -8>>, <<8025, 8031, 2, -8>>, <<8040, 8047, 1, -8>>,
    <<8072, 8079, 1, -8>>, <<8088, 8095, 1, -8>>, <<8104, 8111, 1, -8>>,
    <<8120, 8121, 1, -8>>, <<8122, 8123, 1, -74>>, <<8124, 8124, 1, -9>>,
    <<8136, 8139, 1, -86>>, <<8140, 8140, 1, -9>>, <<8152, 8153, 1, -8>>,
    <<8154, 8155, 1, -100>>, <<8168, 8169, 1, -8>>, <<8170, 8171, 1, -112>>,
    <<8172, 8172, 1, -7>>, <<8184, 8185, 1, -128>>, <<8186, 8187, 1, -126>>,
    <<8188, 8188, 1, -9>>, <<8486, 8486, 1, -7517>>,
    <<8490, 8490, 1, -8383>>, <<8491, 8491, 1, -8262>>,
    <<8498, 8498, 1, 28>>, <<8544, 8559, 1, 16>>, <<8579, 8579, 1, 1>>,
    <<9398, 9423, 1, 26>>, <<11264, 11311, 1, 48>>, <<11360, 11360, 1, 1>>,
    <<11362, 11362, 1, -10743>>, <<11363, 11363, 1, -3814>>,
    <<11364, 11364, 1, -10727>>, <<11367, 11371, 2, 1>>,
    <<11373, 11373, 1, -10780>>, <<11374, 11374, 1, -10749>>,
    <<11375, 11375, 1, -10783>>, <<11376, 11376, 1, -10782>>,
    <<11378, 11378, 1, 1>>, <<11381, 11381, 1, 1>>,
    <<11390, 11391, 1, -10815>>, <<11392, 11490, 2, 1>>,
    <<11499, 11501, 2, 1>>, <<11506, 11506, 1, 1>>, <<42560, 42604, 2, 1>>,
    <<42624, 42650, 2, 1>>, <<42786, 42798, 2, 1>>, <<42802, 42862, 2, 1>>,
    <<42873, 42875, 2, 1>>, <<42877, 42877, 1, -35332>>,
    <<42878, 42886, 2, 1>>, <<42891, 42891, 1, 1>>,
    <<42893, 42893, 1, -42280>>, <<42896, 42898, 2, 1>>,
    <<42902, 42920, 2, 1>>, <<42922, 42922, 1, -42308>>,
    <<42923, 42923, 1, -42319>>, <<42924, 42924, 1, -42315>>,
    <<42925, 42925, 1, -42305>>, <<42926, 42926, 1, -42308>>,
    <<42928, 42928, 1, -42258>>, <<42929, 42929, 1, -42282>>,
    <<42930, 42930, 1, -42261>>, <<42931, 42931, 1, 928>>,
    <<42932, 42946, 2, 1>>, <<42948, 42948, 1, -48>>,
    <<42949, 42949, 1, -42307>>, <<42950, 42950, 1, -35384>>,
    <<42951, 42953, 2, 1>>, <<42955, 42955, 1, -42343>>,
    <<42956, 42970, 2, 1>>, <<42972, 42972, 1, -42561>>,
    <<42997, 42997, 1, 1>>, <<65313, 65338, 1, 32>>,
    <<66560, 66599, 1, 40>>, <<66736, 66771, 1, 40>>,
    <<66928, 66964, 2, 39>>, <<66929, 66937, 2, 39>>,
    <<66941, 66953, 2, 39>>, <<66957, 66961, 2, 39>>,
    <<66965, 66965, 1, 39>>, <<68736, 68786, 1, 64>>,
    <<68944, 68965, 1, 32>>, <<71840, 71871, 1, 32>>,
    <<93760, 93791, 1, 32>>, <<93856, 93880, 1, 27>>,
    <<125184, 125217, 1, 34>> >>

\* The code points with the Cased property, as ranges.
CasedRanges ==
    <<
    <<65, 90>>, <<97, 122>>, <<170, 170>>, <<181, 181>>, <<186, 186>>,
    <<192, 214>>, <<216, 246>>, <<248, 442>>, <<444, 447>>, <<452, 659>>,
    <<662, 696>>, <<704, 705>>, <<736, 740>>, <<837, 837>>, <<880, 883>>,
    <<886, 887>>, <<890, 893>>, <<895, 895>>, <<902, 902>>, <<904, 906>>,
    <<908, 908>>, <<910, 929>>, <<931, 1013>>, <<1015, 1153>>,
    <<1162, 1327>>, <<1329, 1366>>, <<1376, 1416>>, <<4256, 4293>>,
    <<4295, 4295>>, <<4301, 4301>>, <<4304, 4346>>, <<4348, 4351>>,
    <<5024, 5109>>, <<5112, 5117>>, <<7296, 7306>>, <<7312, 7354>>,
    <<7357, 7359>>, <<7424, 7615>>, <<7680, 7957>>, <<7960, 7965>>,
    <<7968, 8005>>, <<8008, 8013>>, <<8016, 8023>>, <<8025, 8025>>,
    <<8027, 8027>>, <<8029, 8029>>, <<8031, 8061>>, <<8064, 8116>>,
    <<8118, 8124>>, <<8126, 8126>>, <<8130, 8132>>, <<8134, 8140>>,
    <<8144, 8147>>, <<8150, 8155>>, <<8160, 8172>>, <<8178, 8180>>,
    <<8182, 8188>>, <<8305, 8305>>, <<8319, 8319>>, <<8336, 8348>>,
    <<8450, 8450>>, <<8455, 8455>>, <<8458, 8467>>, <<8469, 8469>>,
    <<8473, 8477>>, <<8484, 8484>>, <<8486, 8486>>, <<8488, 8488>>,
    <<8490, 8493>>, <<8495, 8500>>, <<8505, 8505>>, <<8508, 8511>>,
    <<8517, 8521>>, <<8526, 8526>>, <<8544, 8575>>, <<8579, 8580>>,
    <<9398, 9449>>, <<11264, 11492>>, <<11499, 11502>>, <<11506, 11507>>,
    <<11520, 11557>>, <<11559, 11559>>, <<11565, 11565>>, <<42560, 42605>>,
    <<42624, 42653>>, <<42786, 42887>>, <<42891, 42894>>, <<42896, 42972>>,
    <<42993, 42998>>, <<43000, 43002>>, <<43824, 43866>>, <<43868, 43881>>,
    <<43888, 43967>>, <<64256, 64262>>, <<64275, 64279>>, <<65313, 65338>>,
    <<65345, 65370>>, <<66560, 66639>>, <<66736, 66771>>, <<66776, 66811>>,
    <<66928, 66938>>, <<66940, 66954>>, <<66956, 66962>>, <<66964, 66965>>,
    <<66967, 66977>>, <<66979, 66993>>, <<66995, 67001>>, <<67003, 67004>>,
    <<67456, 67456>>, <<67459, 67461>>, <<67463, 67504>>, <<67506, 67514>>,
    <<68736, 68786>>, <<68800, 68850>>, <<68944, 68965>>, <<68976, 68997>>,
    <<71840, 71903>>, <<93760, 93823>>, <<93856, 93880>>, <<93883, 93907>>,
    <<119808, 119892>>, <<119894, 119964>>, <<119966, 119967>>,
    <<119970, 119970>>, <<119973, 119974>>, <<119977, 119980>>,
    <<119982, 119993>>, <<119995, 119995>>, <<119997, 120003>>,
    <<120005, 120069>>, <<120071, 120074>>, <<120077, 120084>>,
    <<120086, 120092>>, <<120094, 120121>>, <<120123, 120126>>,
    <<120128, 120132>>, <<120134, 120134>>, <<120138, 120144>>,
    <<120146, 120485>>, <<120488, 120512>>, <<120514, 120538>>,
    <<120540, 120570>>, <<120572, 120596>>, <<120598, 120628>>,
    <<120630, 120654>>, <<120656, 120686>>, <<120688, 120712>>,
    <<120714, 120744>>, <<120746, 120770>>, <<120772, 120779>>,
    <<122624, 122633>>, <<122635, 122654>>, <<122661, 122666>>,
    <<122928, 122989>>, <<125184, 125251>>, <<127280, 127305>>,
    <<127312, 127337>>, <<127344, 127369>> >>

\* The code points with the Case_Ignorable property, as ranges.
CaseIgnorableRanges ==
    <<
    <<39, 39>>, <<46, 46>>, <<58, 58>>, <<94, 94>>, <<96, 96>>,
    <<168, 168>>, <<173, 173>>, <<175, 175>>, <<180, 180>>, <<183, 184>>,
    <<688, 879>>, <<884, 885>>, <<890, 890>>, <<900, 901>>, <<903, 903>>,
    <<1155, 1161>>, <<1369, 1369>>, <<1375, 1375>>, <<1425, 1469>>,
    <<1471, 1471>>, <<1473, 1474>>, <<1476, 1477>>, <<1479, 1479>>,
    <<1524, 1524>>, <<1536, 1541>>, <<1552, 1562>>, <<1564, 1564>>,
    <<1600, 1600>>, <<1611, 1631>>, <<1648, 1648>>, <<1750, 1757>>,
    <<1759, 1768>>, <<1770, 1773>>, <<1807, 1807>>, <<1809, 1809>>,
    <<1840, 1866>>, <<1958, 1968>>, <<2027, 2037>>, <<2042, 2042>>,
    <<2045, 2045>>, <<2070, 2093>>, <<2137, 2139>>, <<2184, 2184>>,
    <<2192, 2193>>, <<2199, 2207>>, <<2249, 2306>>, <<2362, 2362>>,
    <<2364, 2364>>, <<2369, 2376>>, <<2381, 2381>>, <<2385, 2391>>,
    <<2402, 2403>>, <<2417, 2417>>, <<2433, 2433>>, <<2492, 2492>>,
    <<2497, 2500>>, <<2509, 2509>>, <<2530, 2531>>, <<2558, 2558>>,
    <<2561, 2562>>, <<2620, 2620>>, <<2625, 2626>>, <<2631, 2632>>,
    <<2635, 2637>>, <<2641, 2641>>, <<2672, 2673>>, <<2677, 2677>>,
    <<2689, 2690>>, <<2748, 2748>>, <<2753, 2757>>, <<2759, 2760>>,
    <<2765, 2765>>, <<2786, 2787>>, <<2810, 2815>>, <<2817, 2817>>,
    <<2876, 2876>>, <<2879, 2879>>, <<2881, 2884>>, <<2893, 2893>>,
    <<2901, 2902>>, <<2914, 2915>>, <<2946, 2946>>, <<3008, 3008>>,
    <<3021, 3021>>, <<3072, 3072>>, <<3076, 3076>>, <<3132, 3132>>,
    <<3134, 3136>>, <<3142, 3144>>, <<3146, 3149>>, <<3157, 3158>>,
    <<3170, 3171>>, <<3201, 3201>>, <<3260, 3260>>, <<3263, 3263>>,
    <<3270, 3270>>, <<3276, 3277>>, <<3298, 3299>>, <<3328, 3329>>,
    <<3387, 3388>>, <<3393, 3396>>, <<3405, 3405>>, <<3426, 3427>>,
    <<3457, 3457>>, <<3530, 3530>>, <<3538, 3540>>, <<3542, 3542>>,
    <<3633, 3633>>, <<3636, 3642>>, <<3654, 3662>>, <<3761, 3761>>,
    <<3764, 3772>>, <<3782, 3782>>, <<3784, 3790>>, <<3864, 3865>>,
    <<3893, 3893>>, <<3895, 3895>>, <<3897, 3897>>, <<3953, 3966>>,
    <<3968, 3972>>, <<3974, 3975>>, <<3981, 3991>>, <<3993, 4028>>,
    <<4038, 4038>>, <<4141, 4144>>, <<4146, 4151>>, <<4153, 4154>>,
    <<4157, 4158>>, <<4184, 4185>>, <<4190, 4192>>, <<4209, 4212>>,
    <<4226, 4226>>, <<4229, 4230>>, <<4237, 4237>>, <<4253, 4253>>,
    <<4348, 4348>>, <<4957, 4959>>, <<5906, 5908>>, <<5938, 5939>>,
    <<5970, 5971>>, <<6002, 6003>>, <<6068, 6069>>, <<6071, 6077>>,
    <<6086, 6086>>, <<6089, 6099>>, <<6103, 6103>>, <<6109, 6109>>,
    <<6155, 6159>>, <<6211, 6211>>, <<6277, 6278>>, <<6313, 6313>>,
    <<6432, 6434>>, <<6439, 6440>>, <<6450, 6450>>, <<6457, 6459>>,
    <<6679, 6680>>, <<6683, 6683>>, <<6742, 6742>>, <<6744, 6750>>,
    <<6752, 6752>>, <<6754, 6754>>, <<6757, 6764>>, <<6771, 6780>>,
    <<6783, 6783>>, <<6823, 6823>>, <<6832, 6877>>, <<6880, 6891>>,
    <<6912, 6915>>, <<6964, 6964>>, <<6966, 6970>>, <<6972, 6972>>,
    <<6978, 6978>>, <<7019, 7027>>, <<7040, 7041>>, <<7074, 7077>>,
    <<7080, 7081>>, <<7083, 7085>>, <<7142, 7142>>, <<7144, 7145>>,
    <<7149, 7149>>, <<7151, 7153>>, <<7212, 7219>>, <<7222, 7223>>,
    <<7288, 7293>>, <<7376, 7378>>, <<7380, 7392>>, <<7394, 7400>>,
    <<7405, 7405>>, <<7412, 7412>>, <<7416, 7417>>, <<7468, 7530>>,
    <<7544, 7544>>, <<7579, 7679>>, <<8125, 8125>>, <<8127, 8129>>,
    <<8141, 8143>>, <<8157, 8159>>, <<8173, 8175>>, <<8189, 8190>>,
    <<8203, 8207>>, <<8216, 8217>>, <<8228, 8228>>, <<8231, 8231>>,
    <<8234, 8238>>, <<8288, 8292>>, <<8294, 8303>>, <<8305, 8305>>,
    <<8319, 8319>>, <<8336, 8348>>, <<8400, 8432>>, <<11388, 11389>>,
    <<11503, 11505>>, <<11631, 11631>>, <<11647, 11647>>, <<11744, 11775>>,
    <<11823, 11823>>, <<12293, 12293>>, <<12330, 12333>>, <<12337, 12341>>,
    <<12347, 12347>>, <<12441, 12446>>, <<12540, 12542>>, <<40981, 40981>>,
    <<42232, 42237>>, <<42508, 42508>>, <<42607, 42610>>, <<42612, 42621>>,
    <<42623, 42623>>, <<42652, 42655>>, <<42736, 42737>>, <<42752, 42785>>,
    <<42864, 42864>>, <<42888, 42890>>, <<42993, 42996>>, <<43000, 43001>>,
    <<43010, 43010>>, <<43014, 43014>>, <<43019, 43019>>, <<43045, 43046>>,
    <<43052, 43052>>, <<43204, 43205>>, <<43232, 43249>>, <<43263, 43263>>,
    <<43302, 43309>>, <<43335, 43345>>, <<43392, 43394>>, <<43443, 43443>>,
    <<43446, 43449>>, <<43452, 43453>>, <<43471, 43471>>, <<43493, 43494>>,
    <<43561, 43566>>, <<43569, 43570>>, <<43573, 43574>>, <<43587, 43587>>,
    <<43596, 43596>>, <<43632, 43632>>, <<43644, 43644>>, <<43696, 43696>>,
    <<43698, 43700>>, <<43703, 43704>>, <<43710, 43711>>, <<43713, 43713>>,
    <<43741, 43741>>, <<43756, 43757>>, <<43763, 43764>>, <<43766, 43766>>,
    <<43867, 43871>>, <<43881, 43883>>, <<44005, 44005>>, <<44008, 44008>>,
    <<44013, 44013>>, <<64286, 64286>>, <<64434, 64450>>, <<65024, 65039>>,
    <<65043, 65043>>, <<65056, 65071>>, <<65106, 65106>>, <<65109, 65109>>,
    <<65279, 65279>>, <<65287, 65287>>, <<65294, 65294>>, <<65306, 65306>>,
    <<65342, 65342>>, <<65344, 65344>>, <<65392, 65392>>, <<65438, 65439>>,
    <<65507, 65507>>, <<65529, 65531>>, <<66045, 66045>>, <<66272, 66272>>,
    <<66422, 66426>>, <<67456, 67461>>, <<67463, 67504>>, <<67506, 67514>>,
    <<68097, 68099>>, <<68101, 68102>>, <<68108, 68111>>, <<68152, 68154>>,
    <<68159, 68159>>, <<68325, 68326>>, <<68900, 68903>>, <<68942, 68942>>,
    <<68969, 68973>>, <<68975, 68975>>, <<69291, 69292>>, <<69317, 69317>>,
    <<69370, 69375>>, <<69446, 69456>>, <<69506, 69509>>, <<69633, 69633>>,
    <<69688, 69702>>, <<69744, 69744>>, <<69747, 69748>>, <<69759, 69761>>,
    <<69811, 69814>>, <<69817, 69818>>, <<69821, 69821>>, <<69826, 69826>>,
    <<69837, 69837>>, <<69888, 69890>>, <<69927, 69931>>, <<69933, 69940>>,
    <<70003, 70003>>, <<70016, 70017>>, <<70070, 70078>>, <<70089, 70092>>,
    <<70095, 70095>>, <<70191, 70193>>, <<70196, 70196>>, <<70198, 70199>>,
    <<70206, 70206>>, <<70209, 70209>>, <<70367, 70367>>, <<70371, 70378>>,
    <<70400, 70401>>, <<70459, 70460>>, <<70464, 70464>>, <<70502, 70508>>,
    <<70512, 70516>>, <<70587, 70592>>, <<70606, 70606>>, <<70608, 70608>>,
    <<70610, 70610>>, <<70625, 70626>>, <<70712, 70719>>, <<70722, 70724>>,
    <<70726, 70726>>, <<70750, 70750>>, <<70835, 70840>>, <<70842, 70842>>,
    <<70847, 70848>>, <<70850, 70851>>, <<71090, 71093>>, <<71100, 71101>>,
    <<71103, 71104>>, <<71132, 71133>>, <<71219, 71226>>, <<71229, 71229>>,
    <<71231, 71232>>, <<71339, 71339>>, <<71341, 71341>>, <<71344, 71349>>,
    <<71351, 71351>>, <<71453, 71453>>, <<71455, 71455>>, <<71458, 71461>>,
    <<71463, 71467>>, <<71727, 71735>>, <<71737, 71738>>, <<71995, 71996>>,
    <<71998, 71998>>, <<72003, 72003>>, <<72148, 72151>>, <<72154, 72155>>,
    <<72160, 72160>>, <<72193, 72202>>, <<72243, 72248>>, <<72251, 72254>>,
    <<72263, 72263>>, <<72273, 72278>>, <<72281, 72283>>, <<72330, 72342>>,
    <<72344, 72345>>, <<72544, 72544>>, <<72546, 72548>>, <<72550, 72550>>,
    <<72752, 72758>>, <<72760, 72765>>, <<72767, 72767>>, <<72850, 72871>>,
    <<72874, 72880>>, <<72882, 72883>>, <<72885, 72886>>, <<73009, 73014>>,
    <<73018, 73018>>, <<73020, 73021>>, <<73023, 73029>>, <<73031, 73031>>,
    <<73104, 73105>>, <<73109, 73109>>, <<73111, 73111>>, <<73177, 73177>>,
    <<73459, 73460>>, <<73472, 73473>>, <<73526, 73530>>, <<73536, 73536>>,
    <<73538, 73538>>, <<73562, 73562>>, <<78896, 78912>>, <<78919, 78933>>,
    <<90398, 90409>>, <<90413, 90415>>, <<92912, 92916>>, <<92976, 92982>>,
    <<92992, 92995>>, <<93504, 93506>>, <<93547, 93548>>, <<94031, 94031>>,
    <<94095, 94111>>, <<94176, 94177>>, <<94179, 94180>>, <<94194, 94195>>,
    <<110576, 110579>>, <<110581, 110587>>, <<110589, 110590>>,
    <<113821, 113822>>, <<113824, 113827>>, <<118528, 118573>>,
    <<118576, 118598>>, <<119143, 119145>>, <<119155, 119170>>,
    <<119173, 119179>>, <<119210, 119213>>, <<119362, 119364>>,
    <<121344, 121398>>, <<121403, 121452>>, <<121461, 121461>>,
    <<121476, 121476>>, <<121499, 121503>>, <<121505, 121519>>,
    <<122880, 122886>>, <<122888, 122904>>, <<122907, 122913>>,
    <<122915, 122916>>, <<122918, 122922>>, <<122928, 122989>>,
    <<123023, 123023>>, <<123184, 123197>>, <<123566, 123566>>,
    <<123628, 123631>>, <<124139, 124143>>, <<124398, 124399>>,
    <<124643, 124643>>, <<124646, 124646>>, <<124654, 124655>>,
    <<124661, 124661>>, <<124671, 124671>>, <<125136, 125142>>,
    <<125252, 125259>>, <<127995, 127999>>, <<917505, 917505>>,
    <<917536, 917631>>, <<917760, 917999>> >>

\* core::unicode::Cased
Cased(c) ==
    \E k \in DOMAIN CasedRanges : CasedRanges[k][1] <= c /\ c <= CasedRanges[k][2]

\* core::unicode::Case_Ignorable
Case_Ignorable(c) ==
    \E k \in DOMAIN CaseIgnorableRanges :
        CaseIgnorableRanges[k][1] <= c /\ c <= CaseIgnorableRanges[k][2]

\* char::to_lowercase: ASCII by to_ascii_lowercase, the dotted capital I
\* (U+0130) to "i" and a combining dot above, every other code point by
\* LOWERCASE_TABLE, and itself when the table does not have it.
LowerChar(c) ==
    IF c < 128 THEN (IF c \in 65..90 THEN <<c + 32>> ELSE <<c>>)
    ELSE IF c = 304 THEN <<105, 775>>
    ELSE LET hit == { k \in DOMAIN LOWERCASE_TABLE :
                        /\ LOWERCASE_TABLE[k][1] <= c
                        /\ c <= LOWERCASE_TABLE[k][2]
                        /\ (c - LOWERCASE_TABLE[k][1]) % LOWERCASE_TABLE[k][3] = 0 }
         IN IF hit = {} THEN <<c>>
            ELSE <<c + LOWERCASE_TABLE[CHOOSE k \in hit : TRUE][4]>>

\* case_ignorable_then_cased: past the case-ignorable code points at the
\* front of s, the next code point is there and is cased.
RECURSIVE CaseIgnorableThenCased(_)
CaseIgnorableThenCased(s) ==
    IF s = <<>> THEN FALSE
    ELSE IF Case_Ignorable(Head(s)) THEN CaseIgnorableThenCased(Tail(s))
    ELSE Cased(Head(s))

\* The code points of s from the last to the first.
Rev(s) == [k \in 1..Len(s) |-> s[Len(s) + 1 - k]]

\* map_uppercase_sigma: the capital sigma at place i of from becomes the
\* final small sigma (U+03C2) when it ends a word, else the small sigma.
MapUppercaseSigma(from, i) ==
    IF /\ CaseIgnorableThenCased(Rev(SubSeq(from, 1, i - 1)))
       /\ ~CaseIgnorableThenCased(SubSeq(from, i + 1, Len(from)))
    THEN <<962>>
    ELSE <<963>>

\* The loop of str::to_lowercase from place i on.
RECURSIVE LowerFrom(_, _)
LowerFrom(s, i) ==
    IF i > Len(s) THEN <<>>
    ELSE (IF s[i] = 931 THEN MapUppercaseSigma(s, i) ELSE LowerChar(s[i]))
         \o LowerFrom(s, i + 1)

\* str::to_lowercase.
ToLowercase(s) == LowerFrom(s, 1)

\* <Scheme as From<String>>::from.
SchemeFrom(value) ==
    LET l == ToLowercase(value)
    IN CASE l = Chars("default") -> "Default"
         [] l = Chars("path")    -> "Path"
         [] l = Chars("history") -> "History"
         [] OTHER                -> "Default"

\* Color::from matching the tokens as they are written, and them alone.
ColorFromTokensOnly(value) ==
    CASE value = Chars("dark")  -> "Dark"
      [] value = Chars("light") -> "Light"
      [] value = Chars("16")    -> "Sixteen"
      [] value = Chars("bw")    -> "Bw"
      [] OTHER                  -> "Dark"

\* <Color as From<String>>::from.
ColorFrom(value) ==
    LET l == ToLowercase(value)
    IN CASE l = Chars("dark")  -> "Dark"
         [] l = Chars("light") -> "Light"
         [] l = Chars("16") \/ l = Chars("sixteen") -> "Sixteen"
         [] l = Chars("bw")    -> "Bw"
         [] OTHER              -> "Dark"

\* <Layout as From<String>>::from.
LayoutFrom(value) ==
    LET l == ToLowercase(value)
    IN CASE l = Chars("default")      -> "Default"
         [] l = Chars("reverse")      -> "Reverse"
         [] l = Chars("reverse-list") -> "ReverseList"
         [] OTHER                     -> "Default"

\* <Border as From<String>>::from.
BorderFrom(value) ==
    LET l == ToLowercase(value)
    IN CASE l = Chars("none")       -> "None"
         [] l = Chars("rounded")    -> "Rounded"
         [] l = Chars("sharp")      -> "Sharp"
         [] l = Chars("horizontal") -> "Horizontal"
         [] l = Chars("vertical")   -> "Vertical"
         [] l = Chars("top")        -> "Top"
         [] l = Chars("bottom")     -> "Bottom"
         [] l = Chars("left")       -> "Left"
         [] l = Chars("right")      -> "Right"
         [] OTHER                   -> "None"

\* The configuration fields of Fzf with the builder's defaults.
DefaultConfig ==
    [ custom_args |-> <<>>,
      scheme |-> "Default", literal |-> FALSE, track |-> FALSE, tac |-> FALSE,
      disabled |-> FALSE,
      no_mouse |-> FALSE, cycle |-> FALSE, keep_right |-> FALSE,
      no_hscroll |-> FALSE, filepath_word |-> FALSE,
      layout |-> "Default", border |-> "None", border_label |-> "",
      no_separator |-> FALSE, no_scrollbar |-> FALSE,
      prompt |-> "> ", pointer |-> ">", header |-> "", header_first |-> FALSE,
      ansi |-> FALSE, tabstop |-> 8, color |-> "Dark", no_bold |-> FALSE ]

\* The configuration examples/color.rs builds.
ExampleConfig ==
    [ DefaultConfig EXCEPT
        !.layout = "Reverse", !.border = "Rounded",
        !.border_label = "Favourite Colour", !.color = "Bw",
        !.header = "Pick your favourite colour", !.header_first = TRUE,
        !.custom_args = <<"--height=10">> ]

\* The snapshots a session is built from.
Snapshots == {DefaultConfig, ExampleConfig}

\* add_if_true without its test: the flag whatever the value.
AddAlways(fzf_arg, value) == <<fzf_arg>>

\* add_if_true: the flag when the value is true, nothing otherwise.
AddIfTrue(fzf_arg, value) == IF value THEN <<fzf_arg>> ELSE <<>>

\* get_fzf_args pushing the colour theme first instead of next to last.
GetFzfArgsColorFirst(c) ==
    <<"--color=" \o ColorToString(c.color)>>
    \o <<"--scheme=" \o SchemeToString(c.scheme)>>
    \o AddIfTrue("--literal", c.literal)
    \o AddIfTrue("--track", c.track)
    \o AddIfTrue("--tac", c.tac)
    \o AddIfTrue("--disabled", c.disabled)
    \o AddIfTrue("--no-mouse", c.no_mouse)
    \o AddIfTrue("--cycle", c.cycle)
    \o AddIfTrue("--keep-right", c.keep_right)
    \o AddIfTrue("--no-hscroll", c.no_hscroll)
    \o AddIfTrue("--filepath-word", c.filepath_word)
    \o <<"--layout=" \o LayoutToString(c.layout)>>
    \o <<"--border=" \o BorderToString(c.border)>>
    \o <<"--border-label=" \o c.border_label>>
    \o AddIfTrue("--no-separator", c.no_separator)
    \o AddIfTrue("--no-scrollbar", c.no_scrollbar)
    \o <<"--prompt=" \o c.prompt>>
    \o <<"--pointer=" \o c.pointer>>
    \o (IF c.header # "" THEN <<"--header=" \o c.header>> ELSE <<>>)
    \o AddIfTrue("--header-first", c.header_first)
    \o AddIfTrue("--ansi", c.ansi)
    \o <<"--tabstop=" \o ToString(c.tabstop)>>
    \o AddIfTrue("--no-bold", c.no_bold)

\* Fzf::get_fzf_args: the generated tokens, in the order the code pushes them.
GetFzfArgs(c) ==
    <<"--scheme=" \o SchemeToString(c.scheme)>>
    \o AddIfTrue("--literal", c.literal)
    \o AddIfTrue("--track", c.track)
    \o AddIfTrue("--tac", c.tac)
    \o AddIfTrue("--disabled", c.disabled)
    \o AddIfTrue("--no-mouse", c.no_mouse)
    \o AddIfTrue("--cycle", c.cycle)
    \o AddIfTrue("--keep-right", c.keep_right)
    \o AddIfTrue("--no-hscroll", c.no_hscroll)
    \o AddIfTrue("--filepath-word", c.filepath_word)
    \o <<"--layout=" \o LayoutToString(c.layout)>>
    \o <<"--border=" \o BorderToString(c.border)>>
    \o <<"--border-label=" \o c.border_label>>
    \o AddIfTrue("--no-separator", c.no_separator)
    \o AddIfTrue("--no-scrollbar", c.no_scrollbar)
    \o <<"--prompt=" \o c.prompt>>
    \o <<"--pointer=" \o c.pointer>>
    \o (IF c.header # "" THEN <<"--header=" \o c.header>> ELSE <<>>)
    \o AddIfTrue("--header-first", c.header_first)
    \o AddIfTrue("--ansi", c.ansi)
    \o <<"--tabstop=" \o ToString(c.tabstop)>>
    \o <<"--color=" \o ColorToString(c.color)>>
    \o AddIfTrue("--no-bold", c.no_bold)

\* run() with the chain the other way round: the custom arguments first.
RunArgsCustomFirst(c) == c.custom_args \o GetFzfArgs(c)

\* The argument list run() hands to the subprocess.
RunArgs(c) == GetFzfArgs(c) \o c.custom_args

---------------------------------------------------------------------------
(* The session and its subprocesses                                        *)

VARIABLES
    cfg,        \* the configuration fields of the Fzf struct
    instance,   \* Fzf.instance: 0 for None, else the subprocess it holds
    stdin,      \* Fzf.stdin: 0 for None, else the subprocess whose input it is
    procs,      \* the subprocesses spawned so far, by number
    pc,         \* "idle" (the caller owns the session), "waiting" (inside
                \* output), "done" (consumed), "panicked" (the caller unwound)
    ncalls,     \* API calls made so far
    call,       \* the last API call: operation, items given, result, value
    pushed      \* the items pushed with success into the current input stream

vars == <<cfg, instance, stdin, procs, pc, ncalls, call, pushed>>

\* The items a caller pushes (code points): "a", "b " with a trailing
\* space, the blank " \n", "a\nb" with an interior line terminator, and
\* "\u{a0}\u{e9}" (a no-break space, then a two-byte letter).
Items == { <<97>>, <<98, 32>>, <<32, 10>>, <<97, 10, 98>>, <<160, 233>> }

\* What a subprocess may print on its standard output (bytes): nothing,
\* " a b\n", and "\u{a0}a" followed by an invalid byte, a lead byte cut
\* short and a line terminator.
Outputs == { <<>>, <<32, 97, 32, 98, 10>>, <<194, 160, 97, 255, 195, 10>> }

\* The lists of items given to add_items and run_with_output: none, the
\* two of the specification's scenario, one, and three.
ItemLists ==
    { <<>>,
      << <<97>>, <<98, 32>> >>,
      << <<160, 233>> >>,
      << <<97, 10, 98>>, <<97>>, <<98, 32>> >> }

\* A subprocess just spawned with the given arguments, both pipes open.
NewChild(args) ==
    [ alive |-> TRUE, stdin_open |-> TRUE, written |-> <<>>,
      stdout |-> <<>>, args |-> args ]

\* The record of an API call: its operation, the items given, its result
\* ("Ok", "Err", "Panic", "Some", "None", "Pending"), the string returned.
\* trace lists the steps the call took: <<"spawn", r>>, <<"push", r>>,
\* <<"wait", r>> (r is "Begun" while the wait lasts).
Call(op, items, res, val, trace) ==
    [op |-> op, items |-> items, res |-> res, val |-> val, trace |-> trace]

\* The struct's handles and the subprocesses, as one value the operations map.
World == [instance |-> instance, stdin |-> stdin, procs |-> procs]

\* Dropping a ChildStdin closes the pipe's write end.
CloseStdin(ps, h) ==
    IF h = 0 THEN ps ELSE [ps EXCEPT ![h].stdin_open = FALSE]

\* A run() that stores the input handle before it knows the spawn worked.
RunPartialState(w, c, spawnOk) ==
    LET id == Len(w.procs) + 1
    IN IF ~spawnOk THEN [w |-> [w EXCEPT !.stdin = id], res |-> "Err",
                       trace |-> <<<<"spawn", "Err">>>>]
       ELSE [ w |-> [ instance |-> id, stdin |-> id,
                      procs |-> Append(CloseStdin(w.procs, w.stdin),
                                       NewChild(RunArgs(c))) ],
              res |-> "Ok", trace |-> <<<<"spawn", "Ok">>>> ]

\* Fzf::run: spawn fzf with the argument list and piped input and output;
\* on failure return the error before anything is stored; on success store
\* the input handle and the process handle, dropping the ones held before.
DoRun(w, c, spawnOk) ==
    IF ~spawnOk THEN [w |-> w, res |-> "Err", trace |-> <<<<"spawn", "Err">>>>]
    ELSE LET id == Len(w.procs) + 1
         IN [ w |-> [ instance |-> id, stdin |-> id,
                      procs |-> Append(CloseStdin(w.procs, w.stdin),
                                       NewChild(RunArgs(c))) ],
              res |-> "Ok", trace |-> <<<<"spawn", "Ok">>>> ]

\* The bytes add_item writes for an item: trimmed, one '\n' pushed, as bytes.
Line(item) == AsBytes(Append(Trim(item), NEWLINE))

\* An add_item that returns Ok on a session without an input stream.
AddItemSilentDrop(w, item, dies, out) ==
    IF w.stdin = 0 THEN [w |-> w, res |-> "Ok", trace |-> <<<<"push", "Ok">>>>]
    ELSE IF ~w.procs[w.stdin].alive
         THEN [w |-> w, res |-> "Err", trace |-> <<<<"push", "Err">>>>]
    ELSE IF dies THEN
        [ w |-> [w EXCEPT !.procs[w.stdin].alive = FALSE,
                          !.procs[w.stdin].stdout = out],
          res |-> "Err", trace |-> <<<<"push", "Err">>>> ]
    ELSE [ w |-> [w EXCEPT !.procs[w.stdin].written = @ \o Line(item)],
           res |-> "Ok", trace |-> <<<<"push", "Ok">>>> ]

\* Fzf::add_item: panics without an input stream; otherwise write_all of
\* the line.  The write fails, with nothing written, when the subprocess is
\* gone (broken pipe): it went before the call, or it goes now (dies),
\* having printed out.  A line of this model is far shorter than PIPE_BUF,
\* so the pipe takes it whole or not at all.
DoAddItem(w, item, dies, out) ==
    IF w.stdin = 0 THEN [w |-> w, res |-> "Panic", trace |-> <<<<"push", "Panic">>>>]
    ELSE IF ~w.procs[w.stdin].alive
         THEN [w |-> w, res |-> "Err", trace |-> <<<<"push", "Err">>>>]
    ELSE IF dies THEN
        [ w |-> [w EXCEPT !.procs[w.stdin].alive = FALSE,
                          !.procs[w.stdin].stdout = out],
          res |-> "Err", trace |-> <<<<"push", "Err">>>> ]
    ELSE [ w |-> [w EXCEPT !.procs[w.stdin].written = @ \o Line(item)],
           res |-> "Ok", trace |-> <<<<"push", "Ok">>>> ]

\* The pushes of a trace that returned Ok.
OkPushes(trace) == Len(SelectSeq(trace, LAMBDA e : e = <<"push", "Ok">>))

RECURSIVE PushAllFrom(_, _, _, _, _, _)
\* An add_items loop that goes on to the next item after a failed push and
\* reports the first error at the end.
PushAllFrom(w, items, i, dieAt, out, err) ==
    IF i > Len(items) THEN [w |-> w, res |-> err, trace |-> <<>>]
    ELSE LET r    == DoAddItem(w, items[i], i = dieAt, out)
             rest == PushAllFrom(r.w, items, i + 1, dieAt, out,
                                 IF err = "Ok" THEN r.res ELSE err)
         IN IF r.res = "Panic" THEN r
            ELSE [w |-> rest.w, res |-> rest.res, trace |-> r.trace \o rest.trace]

\* add_items that does not stop at a failed push.
AddItemsNoStop(w, items, dieAt, out) == PushAllFrom(w, items, 1, dieAt, out, "Ok")

RECURSIVE PushFrom(_, _, _, _, _)
\* The loop of add_items from item i on: add_item on each item in order,
\* returning at the first one that fails (the ? operator).  The subprocess
\* goes before the write of item dieAt (0: it does not go in this call).
PushFrom(w, items, i, dieAt, out) ==
    IF i > Len(items) THEN [w |-> w, res |-> "Ok", trace |-> <<>>]
    ELSE LET r == DoAddItem(w, items[i], i = dieAt, out)
         IN IF r.res # "Ok" THEN r
            ELSE LET rest == PushFrom(r.w, items, i + 1, dieAt, out)
                 IN [w |-> rest.w, res |-> rest.res, trace |-> r.trace \o rest.trace]

\* Fzf::add_items.
DoAddItems(w, items, dieAt, out) == PushFrom(w, items, 1, dieAt, out)

\* What is left of the struct when it is dropped: the input handle closes;
\* the process handle is let go without a kill and without a wait.
Dropped(w) ==
    [instance |-> 0, stdin |-> 0, procs |-> CloseStdin(w.procs, w.stdin)]

\* An output that trims only the trailing whitespace.
OutputValueTrailingOnly(stdout) == TrimEnd(FromUtf8Lossy(stdout))

\* The string output() returns for the standard output it captured.
OutputValue(stdout) == Trim(FromUtf8Lossy(stdout))

\* Fzf::output up to the wait: without a process handle it returns None at
\* once and the struct is dropped; with one it enters wait_with_output.
\* The input handle stays in the struct, open, until output returns.
DoOutput(w) ==
    IF w.instance = 0
    THEN [w |-> Dropped(w), res |-> "None", trace |-> <<>>]
    ELSE [w |-> w, res |-> "Pending", trace |-> <<<<"wait", "Begun">>>>]

\* A run_with_output that goes on to the wait after a failed push.
RunWithOutputWaitsAnyway(w, c, spawnOk, items, dieAt) ==
    LET r1 == DoRun(w, c, spawnOk)
        r2 == DoAddItems(r1.w, items, dieAt, <<>>)
        r3 == DoOutput(r2.w)
    IN IF r1.res # "Ok"
       THEN [w |-> Dropped(r1.w), res |-> "None", trace |-> r1.trace]
       ELSE IF r2.res = "Panic"
       THEN [w |-> r2.w, res |-> "Panic", trace |-> r1.trace \o r2.trace]
       ELSE [w |-> r3.w, res |-> r3.res, trace |-> r1.trace \o r2.trace \o r3.trace]

\* run_with_output up to the wait: run, then add_items, then output, each
\* failure returning None at once (.ok()?), which drops the struct.  What
\* a subprocess that goes during the pushes had printed is never read.
DoRunWithOutput(w, c, spawnOk, items, dieAt) ==
    LET r1 == DoRun(w, c, spawnOk)
        r2 == DoAddItems(r1.w, items, dieAt, <<>>)
        r3 == DoOutput(r2.w)
    IN IF r1.res # "Ok"
       THEN [w |-> Dropped(r1.w), res |-> "None", trace |-> r1.trace]
       ELSE IF r2.res = "Panic"
       THEN [w |-> r2.w, res |-> "Panic", trace |-> r1.trace \o r2.trace]
       ELSE IF r2.res # "Ok"
       THEN [w |-> Dropped(r2.w), res |-> "None", trace |-> r1.trace \o r2.trace]
       ELSE [w |-> r3.w, res |-> r3.res, trace |-> r1.trace \o r2.trace \o r3.trace]

\* A wait that gives up although the subprocess still runs.
WaitOverOrTimeout(w) == TRUE

\* wait_with_output returns once the subprocess has terminated.
WaitOver(w) == ~w.procs[w.instance].alive

\* An output that borrows the session and leaves it usable.
PcBorrowed(res) ==
    CASE res = "Pending" -> "waiting"
      [] res = "Panic"   -> "panicked"
      [] OTHER           -> "idle"

\* Where the caller stands after a call that took the session by value
\* (output, run_with_output): inside the wait, unwound, or without it.
PcAfterMove(res) ==
    CASE res = "Pending" -> "waiting"
      [] res = "Panic"   -> "panicked"
      [] OTHER           -> "done"

\* Where the caller stands after a call that borrowed the session.
PcAfterBorrow(res) == IF res = "Panic" THEN "panicked" ELSE "idle"

---------------------------------------------------------------------------
(* The state machine                                                       *)

\* FzfBuilder::build: a snapshot, no process, no input handle.
Init ==
    /\ cfg \in Snapshots
    /\ instance = 0
    /\ stdin = 0
    /\ procs = <<>>
    /\ pc = "idle"
    /\ ncalls = 0
    /\ call = Call("build", <<>>, "Ok", <<>>, <<>>)
    /\ pushed = <<>>

\* The caller may make one more call on the session it owns.
CanCall == pc = "idle" /\ ncalls < MaxCalls

\* The subprocess behind the input handle is there to go during a write.
CanDie(w) == w.stdin # 0 /\ w.procs[w.stdin].alive

\* The struct's handles and the subprocesses take the values of w.
SetWorld(w) ==
    /\ instance' = w.instance
    /\ stdin' = w.stdin
    /\ procs' = w.procs

\* fzf.run()
Run(spawnOk) ==
    /\ CanCall
    /\ LET r == DoRun(World, cfg, spawnOk)
       IN /\ SetWorld(r.w)
          /\ call' = Call("run", <<>>, r.res, <<>>, r.trace)
          /\ pushed' = IF r.res = "Ok" THEN <<>> ELSE pushed
          /\ pc' = PcAfterBorrow(r.res)
    /\ ncalls' = ncalls + 1
    /\ UNCHANGED cfg

\* fzf.add_item(item)
AddItem(item) ==
    /\ CanCall
    /\ LET r == DoAddItem(World, item, FALSE, <<>>)
       IN /\ SetWorld(r.w)
          /\ call' = Call("add_item", <<item>>, r.res, <<>>, r.trace)
          /\ pushed' = IF r.res = "Ok" THEN Append(pushed, item) ELSE pushed
          /\ pc' = PcAfterBorrow(r.res)
    /\ ncalls' = ncalls + 1
    /\ UNCHANGED cfg

\* fzf.add_items(items)
AddItems(items, dieAt, out) ==
    /\ CanCall
    /\ dieAt # 0 => CanDie(World)
    /\ LET r == DoAddItems(World, items, dieAt, out)
       IN /\ SetWorld(r.w)
          /\ call' = Call("add_items", items, r.res, <<>>, r.trace)
          /\ pushed' = pushed \o SubSeq(items, 1, OkPushes(r.trace))
          /\ pc' = PcAfterBorrow(r.res)
    /\ ncalls' = ncalls + 1
    /\ UNCHANGED cfg

\* fzf.output(), up to the wait
Output ==
    /\ CanCall
    /\ LET r == DoOutput(World)
       IN /\ SetWorld(r.w)
          /\ call' = Call("output", <<>>, r.res, <<>>, r.trace)
          /\ pc' = PcAfterMove(r.res)
    /\ ncalls' = ncalls + 1
    /\ UNCHANGED <<cfg, pushed>>

\* run_with_output(fzf, items), up to the wait
RunWithOutput(spawnOk, items, dieAt) ==
    /\ CanCall
    /\ dieAt # 0 => spawnOk
    /\ LET r == DoRunWithOutput(World, cfg, spawnOk, items, dieAt)
       IN /\ SetWorld(r.w)
          /\ call' = Call("run_with_output", items, r.res, <<>>, r.trace)
          /\ pushed' = IF spawnOk THEN SubSeq(items, 1, OkPushes(r.trace)) ELSE pushed
          /\ pc' = PcAfterMove(r.res)
    /\ ncalls' = ncalls + 1
    /\ UNCHANGED cfg

\* The wait inside output() ends: the subprocess has terminated and
\* wait_with_output gives its standard output (waitOk) or an error.  Then
\* output returns and what is left of the struct is dropped.
OutputReturn(waitOk) ==
    /\ pc = "waiting"
    /\ WaitOver(World)
    /\ SetWorld(Dropped(World))
    /\ call' = [call EXCEPT
                  !.res = IF waitOk THEN "Some" ELSE "None",
                  !.val = IF waitOk THEN OutputValue(procs[instance].stdout) ELSE <<>>,
                  !.trace = [@ EXCEPT ![Len(@)] = <<"wait", IF waitOk THEN "Ok" ELSE "Err">>]]
    /\ pc' = PcAfterMove(IF waitOk THEN "Some" ELSE "None")
    /\ UNCHANGED <<cfg, ncalls, pushed>>

\* The subprocess the session holds terminates (the user picked or quit),
\* having printed out.
ChildExit(out) ==
    /\ pc \in {"idle", "waiting"}
    /\ instance # 0
    /\ procs[instance].alive
    /\ procs' = [procs EXCEPT ![instance].alive = FALSE, ![instance].stdout = out]
    /\ UNCHANGED <<cfg, instance, stdin, pc, ncalls, call, pushed>>

Next ==
    \/ \E spawnOk \in BOOLEAN : Run(spawnOk)
    \/ \E item \in Items : AddItem(item)
    \/ \E items \in ItemLists : AddItems(items, 0, <<>>)
    \/ \E items \in ItemLists, out \in Outputs :
           \E d \in 2..Len(items) : AddItems(items, d, out)
    \/ Output
    \/ \E spawnOk \in BOOLEAN, items \in ItemLists : RunWithOutput(spawnOk, items, 0)
    \/ \E items \in ItemLists : \E d \in 1..Len(items) : RunWithOutput(TRUE, items, d)
    \/ \E waitOk \in BOOLEAN : OutputReturn(waitOk)
    \/ \E out \in Outputs : ChildExit(out)

Spec == Init /\ [][Next]_vars

\* The specification with the scheduling the operating system gives: once
\* the subprocess has terminated, the wait inside output() returns.
FairSpec == Spec /\ WF_vars(\E waitOk \in BOOLEAN : OutputReturn(waitOk))

---------------------------------------------------------------------------
(* The builder: from Fzf::builder() through its setters to build(), then  *)
(* the session: a run, a push, a run                                       *)

\* Most setter calls made on one builder in a behaviour.
MaxSetters == 2

\* The options of the builder: the fields of Fzf that have a setter.
Fields == DOMAIN DefaultConfig

\* The options of type bool.
BoolFields ==
    { "literal", "track", "tac", "disabled", "no_mouse", "cycle",
      "keep_right", "no_hscroll", "filepath_word", "no_separator",
      "no_scrollbar", "header_first", "ansi", "no_bold" }

\* The options of an enum type, which a String converts into.
EnumFields == { "scheme", "layout", "border", "color" }

\* FzfBuilder::default(): every field is None (the empty sequence; Some(v)
\* is <<v>>).
FzfBuilderDefault == [f \in Fields |-> <<>>]

\* The values a caller hands to the setter of f in the field's own type.
SetterArgs(f) ==
    CASE f \in BoolFields   -> BOOLEAN
      [] f = "scheme"       -> {"Default", "Path", "History"}
      [] f = "layout"       -> {"Default", "Reverse", "ReverseList"}
      [] f = "border"       -> {"None", "Rounded", "Sharp", "Horizontal",
                                "Vertical", "Top", "Bottom", "Left", "Right"}
      [] f = "color"        -> {"Dark", "Light", "Sixteen", "Bw"}
      [] f = "border_label" -> {"", "Favourite Colour"}
      [] f = "prompt"       -> {"> ", "$ "}
      [] f = "pointer"      -> {">", "*"}
      [] f = "header"       -> {"", "Pick one"}
      [] f = "tabstop"      -> {8, 4, 255}

\* The Strings a caller hands to the setter of an enum option: the token of
\* every value, then capitals ("PATH"), a token with a space after it, the
\* second name of a colour, "DAR" with the Kelvin sign (U+212A) after it, an
\* unknown word and the empty String.
EnumStrings(f) ==
    CASE f = "scheme" ->
           { Chars("default"), Chars("path"), Chars("history"),
             <<80, 65, 84, 72>>, <<112, 97, 116, 104, 32>>, <<110, 111, 112, 101>>, <<>> }
      [] f = "layout" ->
           { Chars("default"), Chars("reverse"), Chars("reverse-list"),
             <<82, 101, 118, 101, 114, 115, 101, 45, 76, 105, 115, 116>>, <<110, 111, 112, 101>> }
      [] f = "border" ->
           { Chars("none"), Chars("rounded"), Chars("sharp"),
             Chars("horizontal"), Chars("vertical"), Chars("top"),
             Chars("bottom"), Chars("left"), Chars("right"),
             <<82, 79, 85, 78, 68, 69, 68>>, <<110, 111, 112, 101>> }
      [] f = "color" ->
           { Chars("dark"), Chars("light"), Chars("16"), Chars("bw"),
             Chars("sixteen"), <<66, 87>>, <<68, 65, 82, 8490>>,
             <<110, 111, 112, 101>> }

\* The lists a caller hands to custom_args.
CustomArgLists == { <<>>, <<"--height=10">>, <<"--multi", "--height=10">> }

\* String::into() for the enum option f.
Into(f, value) ==
    CASE f = "scheme" -> SchemeFrom(value)
      [] f = "layout" -> LayoutFrom(value)
      [] f = "border" -> BorderFrom(value)
      [] f = "color"  -> ColorFrom(value)

\* value.to_string() for the enum option f.
EnumToString(f, v) ==
    CASE f = "scheme" -> SchemeToString(v)
      [] f = "layout" -> LayoutToString(v)
      [] f = "border" -> BorderToString(v)
      [] f = "color"  -> ColorToString(v)

\* build() with a field that has no default: an unset field is an error.
BuildWithoutDefaults(b) ==
    IF \E f \in Fields : Len(b[f]) = 0
    THEN [res |-> "Err", fzf |-> b]
    ELSE [res |-> "Ok", fzf |-> [f \in Fields |-> b[f][1]]]

\* FzfBuilder::build: every field takes the value set, or else its default.
DoBuild(b) ==
    [ res |-> "Ok",
      fzf |-> [f \in Fields |-> IF Len(b[f]) = 0 THEN DefaultConfig[f] ELSE b[f][1]] ]

\* Fzf::builder(): while pc = "building", cfg holds the builder's fields
\* and ncalls counts its setter calls.
BuildInit ==
    /\ cfg = FzfBuilderDefault
    /\ instance = 0
    /\ stdin = 0
    /\ procs = <<>>
    /\ pc = "building"
    /\ ncalls = 0
    /\ call = Call("builder", <<>>, "Ok", <<>>, <<>>)
    /\ pushed = <<>>

\* The builder takes one more setter call.
CanSet == pc = "building" /\ ncalls < MaxSetters

\* builder.f(value), value of the field's type: call.val keeps the argument.
Setter(f, value) ==
    /\ CanSet
    /\ cfg' = [cfg EXCEPT ![f] = <<value>>]
    /\ call' = Call(f, <<>>, "Ok", <<value>>, <<>>)
    /\ ncalls' = ncalls + 1
    /\ UNCHANGED <<instance, stdin, procs, pc, pushed>>

\* builder.f(value), value a String: call.items keeps the argument.
SetterFromString(f, value) ==
    /\ CanSet
    /\ cfg' = [cfg EXCEPT ![f] = <<Into(f, value)>>]
    /\ call' = Call(f, <<value>>, "Ok", <<>>, <<>>)
    /\ ncalls' = ncalls + 1
    /\ UNCHANGED <<instance, stdin, procs, pc, pushed>>

\* builder.custom_args(args)
CustomArgs(args) ==
    /\ CanSet
    /\ cfg' = [cfg EXCEPT !.custom_args = <<args>>]
    /\ call' = Call("custom_args", <<>>, "Ok", <<args>>, <<>>)
    /\ ncalls' = ncalls + 1
    /\ UNCHANGED <<instance, stdin, procs, pc, pushed>>

\* builder.build(): from here cfg holds the snapshot and ncalls counts the
\* calls on the session.
Build ==
    /\ pc = "building"
    /\ LET r == DoBuild(cfg)
       IN /\ cfg' = r.fzf
          /\ call' = Call("build", <<>>, r.res, <<>>, <<>>)
          /\ pc' = IF r.res = "Ok" THEN "idle" ELSE "done"
    /\ ncalls' = 0
    /\ UNCHANGED <<instance, stdin, procs, pushed>>

BuildNext ==
    \/ \E f \in Fields \ {"custom_args"} : \E value \in SetterArgs(f) : Setter(f, value)
    \/ \E f \in EnumFields : \E value \in EnumStrings(f) : SetterFromString(f, value)
    \/ \E args \in CustomArgLists : CustomArgs(args)
    \/ Build
    \/ ncalls \in {0, 2} /\ \E spawnOk \in BOOLEAN : Run(spawnOk)
    \/ (ncalls = 1 /\ instance # 0) /\ \E item \in Items : AddItem(item)
    \/ (ncalls = 1 /\ instance # 0) /\ \E items \in ItemLists : AddItems(items, 0, <<>>)

\* A builder, its snapshot, and the session through its first run, its
\* first push and one more run.
BuildSpec == BuildInit /\ [][BuildNext]_vars

---------------------------------------------------------------------------
(* The session with a subprocess that reads its input to the end          *)

\* fzf given --filter does not wait for a user: it reads its standard
\* input to the end, prints the matches and terminates.
ReadsToEof(args) == \E k \in DOMAIN args : args[k] = "--filter=a"

\* The default configuration with the custom argument --filter=a.
FilterConfig == [DefaultConfig EXCEPT !.custom_args = <<"--filter=a">>]

\* build(): a snapshot that runs fzf for a user, or one that runs it as a
\* filter.
EofInit ==
    /\ cfg \in {DefaultConfig, FilterConfig}
    /\ instance = 0
    /\ stdin = 0
    /\ procs = <<>>
    /\ pc = "idle"
    /\ ncalls = 0
    /\ call = Call("build", <<>>, "Ok", <<>>, <<>>)
    /\ pushed = <<>>

\* The session's subprocesses terminate when their user picks or quits.
UserDriven == ~ReadsToEof(RunArgs(cfg))

\* Subprocess i, a filter, has read the end of its input (every handle on
\* the writing end of its pipe is closed): it prints out and terminates.
ExitAtEof(i, out) ==
    /\ procs[i].alive
    /\ ReadsToEof(procs[i].args)
    /\ ~procs[i].stdin_open
    /\ procs' = [procs EXCEPT ![i].alive = FALSE, ![i].stdout = out]
    /\ UNCHANGED <<cfg, instance, stdin, pc, ncalls, call, pushed>>

EofNext ==
    \/ \E spawnOk \in BOOLEAN : Run(spawnOk)
    \/ \E item \in Items : AddItem(item)
    \/ \E items \in ItemLists : AddItems(items, 0, <<>>)
    \/ UserDriven /\ \E items \in ItemLists, out \in Outputs :
                         \E d \in 2..Len(items) : AddItems(items, d, out)
    \/ Output
    \/ \E spawnOk \in BOOLEAN, items \in ItemLists : RunWithOutput(spawnOk, items, 0)
    \/ UserDriven /\ \E items \in ItemLists :
                         \E d \in 1..Len(items) : RunWithOutput(TRUE, items, d)
    \/ \E waitOk \in BOOLEAN : OutputReturn(waitOk)
    \/ UserDriven /\ \E out \in Outputs : ChildExit(out)
    \/ \E i \in DOMAIN procs, out \in Outputs : ExitAtEof(i, out)

\* The scheduling the operating system gives: a filter whose input has
\* ended terminates, and the wait inside output() returns once the
\* subprocess has terminated.
EofSpec ==
    /\ EofInit /\ [][EofNext]_vars
    /\ WF_vars(\E i \in DOMAIN procs, out \in Outputs : ExitAtEof(i, out))
    /\ WF_vars(\E waitOk \in BOOLEAN : OutputReturn(waitOk))

---------------------------------------------------------------------------
(* Properties                                                              *)

\* This step is an API call (the other steps are the subprocess's and the
\* end of the wait).
ApiStep == ncalls' = ncalls + 1

\* This step is the return of output() from its wait.
WaitReturnStep == pc = "waiting" /\ pc' # "waiting"

\* v is text less whitespace at its two ends: v is a stretch of text,
\* what lies before and after it in text is whitespace only, and v itself
\* neither starts nor ends with whitespace.
IsStripped(v, text) ==
    /\ v # <<>> => ~IsWhitespace(v[1]) /\ ~IsWhitespace(v[Len(v)])
    /\ \E i \in 0..Len(text) : \E j \in i..Len(text) :
           /\ v = SubSeq(text, i + 1, j)
           /\ \A m \in 1..i : IsWhitespace(text[m])
           /\ \A m \in (j + 1)..Len(text) : IsWhitespace(text[m])

\* The stretch of text that is text less whitespace at its two ends.
Stripped(text) ==
    CHOOSE v \in {SubSeq(text, i + 1, j) : i \in 0..Len(text), j \in 0..Len(text)} :
        IsStripped(v, text)

RECURSIVE PushedBytes(_)
\* The bytes expected for a sequence of pushed items: each item
\* less the whitespace at its ends, then one line terminator.
PushedBytes(items) ==
    IF items = <<>> THEN <<>>
    ELSE AsBytes(Stripped(Head(items))) \o <<10>> \o PushedBytes(Tail(items))

\* How many elements of s equal x.
Count(s, x) == Cardinality({i \in 1..Len(s) : s[i] = x})

RECURSIVE InteriorBreaks(_)
\* The line terminators inside the trimmed items.
InteriorBreaks(items) ==
    IF items = <<>> THEN 0
    ELSE Count(Stripped(Head(items)), 10) + InteriorBreaks(Tail(items))

\* C1 (as claimed): when output() has waited on a subprocess that exited
\* without printing anything, it returns None.
C1_NoOutputIsNone ==
    [][ (WaitReturnStep /\ call.op = "output" /\ procs[instance].stdout = <<>>)
            => call'.res = "None" ]_vars

\* C2 (as claimed): the input stream of a Running session holds the trimmed
\* items pushed with success, one line terminator after each, in push
\* order, and so exactly as many lines as items were pushed.
C2_ExactlyOneLinePerItem ==
    stdin # 0 =>
        /\ procs[stdin].written = PushedBytes(pushed)
        /\ Count(procs[stdin].written, 10) = Len(pushed)

\* C2 (amended): the input stream of a Running session holds the trimmed
\* items pushed with success, one line terminator after each, in push
\* order; it holds as many lines as items were pushed plus one for every
\* line terminator inside a trimmed item, so exactly one line per item when
\* no trimmed item contains a line terminator.
C2_WrittenIsTrimmedItems ==
    stdin # 0 =>
        /\ procs[stdin].written = PushedBytes(pushed)
        /\ Count(procs[stdin].written, 10) = Len(pushed) + InteriorBreaks(pushed)
        /\ InteriorBreaks(pushed) = 0 => Count(procs[stdin].written, 10) = Len(pushed)

\* C2 witness: "a" and "b " were pushed and the stream holds "a\nb\n".
C2_Witness ==
    /\ stdin # 0
    /\ pushed = << <<97>>, <<98, 32>> >>
    /\ procs[stdin].written = <<97, 10, 98, 10>>

\* This step is a push of at least one item.
PushStep ==
    /\ ApiStep
    /\ call'.op \in {"add_item", "add_items"}
    /\ call'.items # <<>>

\* C3: a push of at least one item on a session that holds no subprocess
\* panics, writes nothing and changes nothing; on a session that holds one
\* it never panics; and the session a caller owns has an input handle
\* exactly when it has a process handle.
C3_PushNeedsRunningSession ==
    [][ /\ PushStep /\ instance = 0 =>
            /\ call'.res = "Panic"
            /\ pc' = "panicked"
            /\ UNCHANGED <<instance, stdin, procs, cfg>>
        /\ PushStep /\ instance # 0 => call'.res \in {"Ok", "Err"}
        /\ pc' = "idle" => ((instance' = 0) <=> (stdin' = 0)) ]_vars

\* C3 witness: add_items with items panicked on a session whose earlier
\* call spawned nothing, and no subprocess was ever there to write to.
C3_Witness ==
    /\ pc = "panicked"
    /\ call.op = "add_items"
    /\ call.res = "Panic"
    /\ ncalls = 2
    /\ procs = <<>>

\* C4: a run() that returns the spawn error leaves the process handle, the
\* input handle, the subprocesses and the configuration as they were, so a
\* session that was Unstarted still is.
C4_FailedRunKeepsState ==
    [][ (ApiStep /\ call'.op = "run" /\ call'.res = "Err") =>
            /\ UNCHANGED <<instance, stdin, procs, cfg, pc>>
            /\ instance = 0 => instance' = 0 /\ stdin' = 0 ]_vars

\* C4 witness: run() has failed on an Unstarted session, which holds nothing.
C4_Witness ==
    /\ call.op = "run"
    /\ call.res = "Err"
    /\ call.trace = << <<"spawn", "Err">> >>
    /\ instance = 0
    /\ stdin = 0
    /\ procs = <<>>
    /\ pc = "idle"

\* C5 (as claimed): a session spawns at most one subprocess, and run() on a
\* session that holds a subprocess leaves its handles alone.
C5_NoRespawn ==
    [][ /\ Len(procs') <= 1
        /\ (ApiStep /\ call'.op = "run" /\ instance # 0) =>
               UNCHANGED <<instance, stdin, procs>> ]_vars

\* C6: once output() has been invoked on a session, no call is made on it
\* again: the last call stays that output() call.
C6_OutputConsumes ==
    [][ call.op = "output" => ~ApiStep /\ call'.op = "output" ]_vars

\* C6 witness: output() has returned a string while the caller had calls left.
C6_Witness ==
    /\ pc = "done"
    /\ call.op = "output"
    /\ call.res = "Some"
    /\ ncalls < MaxCalls

\* This step is an add_items call.
AddItemsStep == ApiStep /\ call'.op = "add_items"

\* C7: add_items pushes its items in order through add_item and stops at
\* the first push that fails: the pushes before it succeeded and their
\* lines are in the stream in order, no push follows it, its error is what
\* add_items returns, and add_items returns Ok exactly when every item was
\* pushed.
C7_AddItemsStopsAtFirstFailure ==
    [][ AddItemsStep =>
          LET items == call'.items
              t     == call'.trace
              k     == OkPushes(t)
          IN /\ \A i \in 1..k : t[i] = <<"push", "Ok">>
             /\ (call'.res = "Ok") <=> (k = Len(items))
             /\ call'.res = "Ok" => Len(t) = Len(items)
             /\ call'.res # "Ok" => Len(t) = k + 1 /\ t[k + 1] = <<"push", call'.res>>
             /\ stdin' = stdin
             /\ stdin # 0 =>
                    procs'[stdin].written =
                        procs[stdin].written \o PushedBytes(SubSeq(items, 1, k)) ]_vars

\* C7 witness: add_items was given three items, pushed the first, failed
\* on the second and returned that error without trying the third.
C7_Witness ==
    /\ call.op = "add_items"
    /\ call.res = "Err"
    /\ Len(call.items) = 3
    /\ call.trace = << <<"push", "Ok">>, <<"push", "Err">> >>
    /\ stdin # 0
    /\ procs[stdin].written = PushedBytes(SubSeq(call.items, 1, 1))

\* This step is a run_with_output call.
RwoStep == ApiStep /\ call'.op = "run_with_output"

\* The entries of a trace for one kind of step.
StepsOf(t, kind) == Cardinality({i \in 1..Len(t) : t[i][1] = kind})

\* C8: run_with_output spawns once, then pushes the items in order, then
\* waits once.  A failed spawn ends it with None: no push, no wait, no
\* second spawn.  A failed push ends it with None: the items before it are
\* in the new subprocess's input, no later push, no wait.
C8_RunWithOutputOrder ==
    [][ /\ RwoStep =>
          LET items == call'.items
              t     == call'.trace
              k     == OkPushes(t)
          IN /\ Len(t) >= 1
             /\ t[1][1] = "spawn"
             /\ StepsOf(t, "spawn") = 1
             /\ Len(procs') = Len(procs) + (IF t[1][2] = "Ok" THEN 1 ELSE 0)
             /\ t[1][2] # "Ok" =>
                    /\ Len(t) = 1
                    /\ call'.res = "None"
                    /\ pc' = "done"
                    /\ \A i \in 1..Len(procs) : procs'[i].written = procs[i].written
             /\ t[1][2] = "Ok" =>
                    /\ \A i \in 1..k : t[i + 1] = <<"push", "Ok">>
                    /\ procs'[Len(procs')].written = PushedBytes(SubSeq(items, 1, k))
                    /\ Len(t) = k + 2
                    /\ IF k = Len(items)
                       THEN /\ t[k + 2] = <<"wait", "Begun">>
                            /\ call'.res = "Pending"
                            /\ pc' = "waiting"
                       ELSE /\ t[k + 2] = <<"push", "Err">>
                            /\ call'.res = "None"
                            /\ pc' = "done"
        /\ call'.op = "run_with_output" =>
               StepsOf(call'.trace, "spawn") = 1 /\ StepsOf(call'.trace, "wait") <= 1
      ]_vars

\* C8 witness: run_with_output spawned, pushed one item of several, failed
\* on the next and returned None without waiting.
C8_Witness ==
    /\ call.op = "run_with_output"
    /\ call.res = "None"
    /\ pc = "done"
    /\ Len(call.items) >= 2
    /\ call.trace = << <<"spawn", "Ok">>, <<"push", "Ok">>, <<"push", "Err">> >>

\* C9: when the wait succeeds output() returns a string, never a failure:
\* the lossy decoding of all the subprocess printed, less the whitespace at
\* its two ends.  The string neither starts nor ends with whitespace, and
\* what was cut off on either side is whitespace only.
C9_OutputIsTrimmedDecoding ==
    [][ WaitReturnStep =>
          LET out  == procs[instance].stdout
              text == FromUtf8Lossy(out)
              v    == call'.val
              t    == call'.trace
          IN /\ (t[Len(t)] = <<"wait", "Ok">>) <=> (call'.res = "Some")
             /\ (\A m \in 1..Len(out) : out[m] < 128) => text = out
             /\ call'.res = "Some" => IsStripped(v, text) ]_vars

\* C9 witness: the subprocess printed a no-break space, "a", an invalid
\* byte, a lead byte cut short and a line terminator; output() returned
\* "a" and two replacement characters.
C9_Witness ==
    /\ pc = "done"
    /\ call.res = "Some"
    /\ procs[Len(procs)].stdout = <<194, 160, 97, 255, 195, 10>>
    /\ call.val = <<97, 65533, 65533>>

\* C10: output() returns from its wait only when the subprocess has
\* terminated (so it never returns while the subprocess runs), and once
\* the subprocess has terminated it does return.
C10_OutputBlocksUntilExit ==
    /\ [][ WaitReturnStep => ~procs[instance].alive ]_vars
    /\ ((pc = "waiting" /\ ~procs[instance].alive) ~> (pc = "done"))

\* C10 witness: output() has returned from a wait on a subprocess that
\* has terminated.
C10_Witness ==
    /\ pc = "done"
    /\ call.op = "output"
    /\ call.trace = << <<"wait", "Ok">> >>
    /\ ~procs[Len(procs)].alive

---------------------------------------------------------------------------
(* Properties of the configuration, under BuildSpec                        *)

\* The tokens subprocess i was given before the custom arguments.
Generated(i) ==
    SubSeq(procs[i].args, 1, Len(procs[i].args) - Len(cfg.custom_args))

\* C11: the argument list run() passes is the generated tokens followed by
\* the custom arguments: the list ends with the custom arguments, verbatim
\* and in the caller's order, everything before them is the generated
\* tokens, and a custom list that is not empty gives the list its last token.
C11_CustomArgsLast ==
    \A i \in DOMAIN procs :
        LET a == procs[i].args
            n == Len(cfg.custom_args)
        IN /\ Len(a) >= n
           /\ SubSeq(a, Len(a) - n + 1, Len(a)) = cfg.custom_args
           /\ Generated(i) = GetFzfArgs(cfg)
           /\ n > 0 => a[Len(a)] = cfg.custom_args[n]

\* A subprocess was spawned with two custom arguments, and its argument
\* list ends with them in order: "--multi", then "--height=10".
C11_Witness ==
    \E i \in DOMAIN procs :
        LET a == procs[i].args
        IN /\ cfg.custom_args = <<"--multi", "--height=10">>
           /\ Len(a) > 2
           /\ a[Len(a) - 1] = "--multi"
           /\ a[Len(a)] = "--height=10"

\* The options that carry a value, the header apart.
ValueFields ==
    { "scheme", "layout", "border", "border_label", "prompt", "pointer",
      "tabstop", "color" }

\* The "--name=" an option's token starts with.
OptionName(f) ==
    CASE f = "scheme"       -> "--scheme="
      [] f = "layout"       -> "--layout="
      [] f = "border"       -> "--border="
      [] f = "border_label" -> "--border-label="
      [] f = "prompt"       -> "--prompt="
      [] f = "pointer"      -> "--pointer="
      [] f = "header"       -> "--header="
      [] f = "tabstop"      -> "--tabstop="
      [] f = "color"        -> "--color="

\* The fixed string tokens of the scoring schemes.
SchemeToken(v) ==
    CASE v = "Default" -> "default" [] v = "Path" -> "path"
      [] v = "History" -> "history"

\* The fixed string tokens of the layouts.
LayoutToken(v) ==
    CASE v = "Default" -> "default" [] v = "Reverse" -> "reverse"
      [] v = "ReverseList" -> "reverse-list"

\* The fixed string tokens of the border styles.
BorderToken(v) ==
    CASE v = "None" -> "none" [] v = "Rounded" -> "rounded"
      [] v = "Sharp" -> "sharp" [] v = "Horizontal" -> "horizontal"
      [] v = "Vertical" -> "vertical" [] v = "Top" -> "top"
      [] v = "Bottom" -> "bottom" [] v = "Left" -> "left"
      [] v = "Right" -> "right"

\* The fixed string tokens of the colour themes.
ColorToken(v) ==
    CASE v = "Dark" -> "dark" [] v = "Light" -> "light"
      [] v = "Sixteen" -> "16" [] v = "Bw" -> "bw"

\* The fixed string token of an enumerated value.
FixedToken(f, v) ==
    CASE f = "scheme" -> SchemeToken(v)
      [] f = "layout" -> LayoutToken(v)
      [] f = "border" -> BorderToken(v)
      [] f = "color"  -> ColorToken(v)

\* The "--name=value" token of option f holding v.
ValueToken(f, v) ==
    OptionName(f) \o (IF f \in EnumFields THEN FixedToken(f, v)
                      ELSE IF f = "tabstop" THEN ToString(v)
                      ELSE v)

\* Every token option f can give.
ValueTokens(f) == { ValueToken(f, v) : v \in SetterArgs(f) }

\* How many tokens of g are in the set T.
HowMany(g, T) == Cardinality({ k \in DOMAIN g : g[k] \in T })

\* C12: every value-bearing option gives exactly one "--name=value" token,
\* the one of the value it holds (an enumerated value by its fixed token),
\* also at its default; the header gives its token exactly when its text is
\* not empty.
C12_ValueTokens ==
    \A i \in DOMAIN procs :
        LET g == Generated(i)
        IN /\ \A f \in ValueFields :
                 /\ HowMany(g, ValueTokens(f)) = 1
                 /\ HowMany(g, {ValueToken(f, cfg[f])}) = 1
           /\ HowMany(g, ValueTokens("header")) = (IF cfg.header # "" THEN 1 ELSE 0)
           /\ cfg.header # "" => HowMany(g, {ValueToken("header", cfg.header)}) = 1

\* A subprocess was spawned from a snapshot with a header and the 16-colour
\* theme, the tab width left at its default: it was given "--header=Pick
\* one", "--color=16" and "--tabstop=8".
C12_Witness ==
    \E i \in DOMAIN procs :
        /\ cfg.header = "Pick one" /\ cfg.color = "Sixteen" /\ cfg.tabstop = 8
        /\ HowMany(Generated(i), {"--header=Pick one"}) = 1
        /\ HowMany(Generated(i), {"--color=16"}) = 1
        /\ HowMany(Generated(i), {"--tabstop=8"}) = 1

\* The bare flag of a boolean option.
FlagName(f) ==
    CASE f = "literal"       -> "--literal"
      [] f = "track"         -> "--track"
      [] f = "tac"           -> "--tac"
      [] f = "disabled"      -> "--disabled"
      [] f = "no_mouse"      -> "--no-mouse"
      [] f = "cycle"         -> "--cycle"
      [] f = "keep_right"    -> "--keep-right"
      [] f = "no_hscroll"    -> "--no-hscroll"
      [] f = "filepath_word" -> "--filepath-word"
      [] f = "no_separator"  -> "--no-separator"
      [] f = "no_scrollbar"  -> "--no-scrollbar"
      [] f = "header_first"  -> "--header-first"
      [] f = "ansi"          -> "--ansi"
      [] f = "no_bold"       -> "--no-bold"

\* C13: a boolean option that is false gives no token, one that is true
\* gives its bare "--name" exactly once.
C13_BooleanFlags ==
    \A i \in DOMAIN procs :
        \A f \in BoolFields :
            HowMany(Generated(i), {FlagName(f)}) = (IF cfg[f] THEN 1 ELSE 0)

\* A subprocess was spawned from a snapshot with literal and no_bold set
\* and track not: it was given "--literal" and "--no-bold" once each, and
\* no "--track".
C13_Witness ==
    \E i \in DOMAIN procs :
        /\ cfg.literal /\ cfg.no_bold /\ ~cfg.track
        /\ HowMany(Generated(i), {"--literal"}) = 1
        /\ HowMany(Generated(i), {"--no-bold"}) = 1
        /\ HowMany(Generated(i), {"--track"}) = 0

\* C14: the default configuration runs fzf with no arguments: a subprocess
\* spawned from the snapshot that build() gives when no setter was called
\* is passed an empty argument list.
C14_DefaultRunsWithNoArguments ==
    \A i \in DOMAIN procs : cfg = DefaultConfig => procs[i].args = <<>>

\* The last call was the setter of an enum option, given a String.
FromStringCalled ==
    pc = "building" /\ call.op \in EnumFields /\ Len(call.items) = 1

\* The default value of each enum type.
EnumDefault(f) ==
    CASE f = "scheme" -> "Default"
      [] f = "layout" -> "Default"
      [] f = "border" -> "None"
      [] f = "color"  -> "Dark"

\* Converting the String the setter was given yields v whenever that
\* String is the token v converts to.
RoundTrip ==
    \A v \in SetterArgs(call.op) :
        call.items[1] = Chars(EnumToString(call.op, v)) => cfg[call.op] = <<v>>

\* C15 as stated: for every value v of an enum type, v's token converts
\* back to v, and every String that is not the token of a value converts
\* to the type's default.
C15_UnrecognizedIsDefault ==
    FromStringCalled =>
        /\ RoundTrip
        /\ (\A v \in SetterArgs(call.op) :
                call.items[1] # Chars(EnumToString(call.op, v)))
           => cfg[call.op] = <<EnumDefault(call.op)>>

\* The values whose token, or second name, is the lowercase String l.
Named(f, l) ==
    { v \in SetterArgs(f) :
        \/ l = Chars(EnumToString(f, v))
        \/ f = "color" /\ v = "Sixteen" /\ l = Chars("sixteen") }

\* C15, amended: for every value v of an enum type, v's token converts
\* back to v; a String converts by its lowercase form: to the value whose
\* token that form is, to Color::Sixteen when it is "sixteen", and to the
\* type's default in every other case.
C15_LowercaseTokenOrDefault ==
    FromStringCalled =>
        /\ RoundTrip
        /\ LET hit == Named(call.op, ToLowercase(call.items[1]))
           IN IF hit = {}
              THEN cfg[call.op] = <<EnumDefault(call.op)>>
              ELSE cfg[call.op][1] \in hit

\* The colour setter was given "BW" and the builder holds Color::Bw.
C15_Witness ==
    /\ FromStringCalled
    /\ call.op = "color"
    /\ call.items = << <<66, 87>> >>
    /\ cfg.color = <<"Bw">>

\* The options in the order their tokens are to appear: the scheme, the
\* search flags, the interface flags, the layout, the border and its label,
\* the separator and scrollbar flags, then the rest.
OptionOrder ==
    << "scheme", "literal", "track", "tac", "disabled",
       "no_mouse", "cycle", "keep_right", "no_hscroll", "filepath_word",
       "layout", "border", "border_label", "no_separator", "no_scrollbar",
       "prompt", "pointer", "header", "header_first", "ansi",
       "tabstop", "color", "no_bold" >>

\* The tokens option f can give.
TokensOf(f) == IF f \in BoolFields THEN {FlagName(f)} ELSE ValueTokens(f)

\* The place in OptionOrder of the option a token belongs to.
Rank(t) == CHOOSE k \in DOMAIN OptionOrder : t \in TokensOf(OptionOrder[k])

\* The generated tokens of subprocess i are in the order of their options.
InOptionOrder(i) ==
    LET g == Generated(i)
    IN \A k, l \in DOMAIN g : k < l => Rank(g[k]) < Rank(g[l])

\* C16: the argument mapping is deterministic and order-stable: the calls
\* on a session (run, add_item, add_items) leave every configuration field
\* alone, the subprocesses one session spawned before and after them were
\* given identical argument lists, and the generated tokens are always in
\* the one fixed order of their options.
C16_DeterministicOrderStable ==
    /\ [](\A i, j \in DOMAIN procs :
              /\ procs[i].args = procs[j].args
              /\ InOptionOrder(i))
    /\ [][pc # "building" => cfg' = cfg]_vars

\* One session spawned two subprocesses, one before and one after a push,
\* from a snapshot with the literal flag and a header: both were given the
\* same list, "--literal" and "--header=Pick one" in it.
C16_Witness ==
    /\ Len(procs) = 2
    /\ Len(pushed) = 0
    /\ Len(procs[1].written) > 0
    /\ procs[1].args = procs[2].args
    /\ cfg.literal /\ cfg.header = "Pick one"
    /\ HowMany(procs[2].args, {"--literal", "--header=Pick one"}) = 2

\* The defaults of the options, as the builder's documentation states them.
StatedDefaults ==
    [ custom_args |-> <<>>,
      scheme |-> "Default", layout |-> "Default", border |-> "None",
      color |-> "Dark", tabstop |-> 8, prompt |-> "> ", pointer |-> ">",
      border_label |-> "", header |-> "",
      literal |-> FALSE, track |-> FALSE, tac |-> FALSE, disabled |-> FALSE,
      no_mouse |-> FALSE, cycle |-> FALSE, keep_right |-> FALSE,
      no_hscroll |-> FALSE, filepath_word |-> FALSE, no_separator |-> FALSE,
      no_scrollbar |-> FALSE, header_first |-> FALSE, ansi |-> FALSE,
      no_bold |-> FALSE ]

\* This step is a setter call on the builder.
SetterStep == pc = "building" /\ pc' = "building"

\* This step is build().
BuildStep == pc = "building" /\ pc' # "building"

\* C17: finalizing the builder never fails.  build() can be called on
\* every builder; a setter call stores its argument in its option and
\* leaves the other options alone; build() returns Ok with a snapshot in
\* which an option never set holds its default and an option that was set
\* holds the value the builder stored last, and the snapshot has no
\* process and no input handle.
C17_BuildNeverFails ==
    /\ [](pc = "building" =>
            /\ ENABLED Build
            /\ (call.op \in Fields /\ Len(call.val) = 1) => cfg[call.op] = call.val)
    /\ [][SetterStep =>
            \A f \in Fields \ {call'.op} : cfg'[f] = cfg[f]]_vars
    /\ [][BuildStep =>
            /\ call'.op = "build" /\ call'.res = "Ok"
            /\ pc' = "idle"
            /\ instance' = 0 /\ stdin' = 0 /\ procs' = <<>>
            /\ \A f \in Fields :
                   cfg'[f] = IF Len(cfg[f]) = 0 THEN StatedDefaults[f] ELSE cfg[f][1]]_vars

\* build() has returned a snapshot of a builder whose tab width was set to
\* 4 and whose header_first was set: both hold what was set, the prompt
\* and the colour theme hold their defaults, and there is no process and
\* no input handle.
C17_Witness ==
    /\ pc = "idle" /\ call.op = "build" /\ call.res = "Ok"
    /\ cfg.tabstop = 4 /\ cfg.header_first
    /\ cfg.prompt = "> " /\ cfg.color = "Dark" /\ cfg.custom_args = <<>>
    /\ instance = 0 /\ stdin = 0 /\ procs = <<>>

---------------------------------------------------------------------------
(* Properties of the session with a filter, under EofSpec                  *)

\* C18: output() closes the session's input stream, so a subprocess that
\* terminates only after the end of its input does terminate: whenever
\* output() is waiting for such a subprocess, it returns.
C18_OutputEndsInput ==
    (pc = "waiting" /\ ReadsToEof(procs[instance].args)) ~> (pc # "waiting")
====
